---- MODULE Spec2Model ----
(***************************************************************************)
(* A model of src/Assignment.py: the CSP class (constraint store, AC-3     *)
(* propagation, backtracking search).                                      *)
(*                                                                         *)
(* Representation of Python objects                                        *)
(*   value        [kind |-> "str", v |-> <<c1, ..., cn>>]  a str, as the   *)
(*                sequence of its characters, or                           *)
(*                [kind |-> "int", v |-> <<digits>>]       an int          *)
(*   list         [kind |-> "list", v |-> <<value, ...>>]                  *)
(*   dict         a sequence of entries [k |-> key, v |-> value], in       *)
(*                insertion order (the order Python iterates a dict in)    *)
(*   table        constraints[i][j]: the set of its value pairs <<x, y>>   *)
(*                (the code only ever tests membership in the list)        *)
(*   assignment   a dict from variable name to a "cell": the list of the   *)
(*                remaining values or, after line 190, a bare value        *)
(* A raised exception ends the call; `exc` holds its class name.           *)
(***************************************************************************)
EXTENDS Naturals, Sequences, FiniteSets

VARIABLES
    variables,                  \* self.variables              (line 17)
    domains,                    \* self.domains                (line 20)
    constraints,                \* self.constraints            (line 24)
    backtrack_counter,          \* self.backtrack_counter      (line 26)
    backtrack_failure_counter,  \* self.backtrack_failure_counter (line 28)
    heap,      \* the assignment dicts made by copy.deepcopy, by reference
    stack,     \* the active backtrack() calls, the innermost last
    inf,       \* the active inference() call: its locals
    pc,        \* where the program is
    result,    \* the value returned by the last backtrack() call
    exc        \* the exception raised by the last call ("none": none)

vars == <<variables, domains, constraints, backtrack_counter,
          backtrack_failure_counter, heap, stack, inf, pc, result, exc>>

store == <<variables, domains, constraints>>
counters == <<backtrack_counter, backtrack_failure_counter>>
search == <<heap, stack, inf, pc, result>>

(***************************************************************************)
(* Python values                                                           *)
(***************************************************************************)
Str(chars) == [kind |-> "str", v |-> chars]
Int(digits) == [kind |-> "int", v |-> digits]
List(items) == [kind |-> "list", v |-> items]

\* len(c): defined for a list and a str; len(int) raises TypeError
HasLen(c) == c.kind \in {"list", "str"}
PyLen(c) == Len(c.v)

\* iter(c): the items of a list, the one-character strs of a str;
\* iter(int) raises TypeError
Iterable(c) == c.kind \in {"list", "str"}
PyItems(c) ==
    IF c.kind = "list" THEN c.v
    ELSE [n \in 1..Len(c.v) |-> Str(<<c.v[n]>>)]

\* A removal that fills the gap with the last item instead of closing it
ListRemove_swap(c, x) ==
    LET n == CHOOSE m \in 1..Len(c.v) : c.v[m] = x
    IN  List([m \in 1..(Len(c.v) - 1) |-> IF m = n THEN c.v[Len(c.v)] ELSE c.v[m]])

\* list.remove(x): drops the first item equal to x
ListRemove(c, x) ==
    LET n == CHOOSE m \in 1..Len(c.v) :
                 c.v[m] = x /\ \A l \in 1..(m - 1) : c.v[l] # x
    IN  List([m \in 1..(Len(c.v) - 1) |-> IF m < n THEN c.v[m] ELSE c.v[m + 1]])

(***************************************************************************)
(* Python dicts                                                            *)
(***************************************************************************)
Keys(d) == [n \in 1..Len(d) |-> d[n].k]
Has(d, key) == \E n \in 1..Len(d) : d[n].k = key
Get(d, key) == d[CHOOSE n \in 1..Len(d) : d[n].k = key].v
\* d[key] = val: an existing key keeps its place, a new key goes last
Put(d, key, val) ==
    IF Has(d, key)
    THEN [n \in 1..Len(d) |-> IF d[n].k = key THEN [k |-> key, v |-> val] ELSE d[n]]
    ELSE Append(d, [k |-> key, v |-> val])

Range(s) == {s[n] : n \in 1..Len(s)}

\* Op(x), with x worked out once and not once per use of it in Op
Once(Op(_), x) == CHOOSE out \in {Op(y) : y \in {x}} : TRUE

(***************************************************************************)
(* The constraint store (lines 15-137)                                     *)
(***************************************************************************)
\* The filter functions the callers pass: lambda x, y: x != y (lines 137,
\* 276) and its complement, lambda x, y: x == y
Holds(p, x, y) == IF p = "neq" THEN x # y ELSE x = y

\* itertools.product(a, b), a and b sequences: the pairs in product order
get_all_possible_pairs(a, b) ==
    [n \in 1..(Len(a) * Len(b)) |->
        <<a[((n - 1) \div Len(b)) + 1], b[((n - 1) % Len(b)) + 1]>>]

\* CSP(): the fields after __init__
NewCSP == [variables |-> <<>>, domains |-> <<>>, constraints |-> <<>>]

\* add_variable(name, domain) on the store st
AddVariable(st, name, domain) ==
    [variables |-> Append(st.variables, name),
     domains |-> Put(st.domains, name, List(domain)),
     constraints |-> Put(st.constraints, name, <<>>)]

\* The exception add_constraint_one_way(i, j, _) raises on the store st:
\* self.constraints[i] (line 113), self.domains[j] (line 117)
AddConstraintRaises(st, i, j) ==
    IF ~Has(st.constraints, i) THEN "KeyError"
    ELSE IF ~Has(Get(st.constraints, i), j)
            /\ (~Has(st.domains, i) \/ ~Has(st.domains, j)) THEN "KeyError"
    ELSE "none"

\* A call that builds the table from the domains again each time, instead
\* of filtering the table that is there
AddConstraintOneWay_rebuild(st, i, j, p) ==
    LET row == Get(st.constraints, i)
        old == Range(get_all_possible_pairs(Get(st.domains, i).v,
                                            Get(st.domains, j).v))
        new == {pair \in old : Holds(p, pair[1], pair[2])}
    IN  [st EXCEPT !.constraints = Put(st.constraints, i, Put(row, j, new))]

\* add_constraint_one_way(i, j, p) on the store st, when it does not raise
AddConstraintOneWay(st, i, j, p) ==
    LET row == Get(st.constraints, i)
        old == IF Has(row, j) THEN Get(row, j)
               ELSE Range(get_all_possible_pairs(Get(st.domains, i).v,
                                                 Get(st.domains, j).v))
        new == {pair \in old : Holds(p, pair[1], pair[2])}
    IN  [st EXCEPT !.constraints = Put(st.constraints, i, Put(row, j, new))]

\* get_all_arcs(), on the constraint tables cons
get_all_arcs(cons) ==
    LET RECURSIVE Rows(_)
        Rows(n) ==
            IF n > Len(cons) THEN <<>>
            ELSE [m \in 1..Len(cons[n].v) |-> <<cons[n].k, cons[n].v[m].k>>]
                 \o Rows(n + 1)
    IN  Rows(1)

\* The arcs out of var instead of the arcs into it
get_all_neighboring_arcs_out(cons, var) ==
    LET row == Get(cons, var)
    IN  [n \in 1..Len(row) |-> <<var, row[n].k>>]

\* get_all_neighboring_arcs(var), on the constraint tables cons
get_all_neighboring_arcs(cons, var) ==
    LET row == Get(cons, var)
    IN  [n \in 1..Len(row) |-> <<row[n].k, var>>]

HasTable(cons, i, j) == Has(cons, i) /\ Has(Get(cons, i), j)
Table(cons, i, j) == Get(Get(cons, i), j)

(***************************************************************************)
(* The propagation engine (lines 223-260)                                  *)
(***************************************************************************)
\* A revise that takes every value for unsupported, whatever the table says
ReviseValue_nosupport(cons, a, i, j, x) ==
    LET ci == Get(a, i)
    IN  IF PyLen(ci) > 1 /\ ci.kind = "list"
        THEN [a |-> Put(a, i, ListRemove(ci, x)), set |-> TRUE, exc |-> "none"]
        ELSE [a |-> a, set |-> TRUE, exc |-> "none"]

\* The Revise of the textbook: an unsupported value is removed whether or
\* not it is the last one
ReviseValue_textbook(cons, a, i, j, x) ==
    LET ci == Get(a, i)
        cj == Get(a, j)
    IN  IF ~Iterable(cj) THEN [a |-> a, set |-> FALSE, exc |-> "TypeError"]
        ELSE
        LET arcs == get_all_possible_pairs(<<x>>, PyItems(cj))
        IN  IF arcs # <<>> /\ ~HasTable(cons, i, j)
            THEN [a |-> a, set |-> FALSE, exc |-> "KeyError"]
            ELSE IF \E n \in 1..Len(arcs) : arcs[n] \in Table(cons, i, j)
            THEN [a |-> a, set |-> FALSE, exc |-> "none"]
            ELSE IF ci.kind = "list"
            THEN [a |-> Put(a, i, ListRemove(ci, x)), set |-> TRUE, exc |-> "none"]
            ELSE [a |-> a, set |-> TRUE, exc |-> "AttributeError"]

\* One pass of the loop body of revise (lines 253-258) for the value x read
\* at position p of assignment[i]: the assignment after it, whether
\* `revised` was set, and the exception raised if any.
\*   line 253  product([x], assignment[j]) raises TypeError on an int
\*   line 254  self.constraints[i][j] is looked up once per arc: KeyError
\*             when there is an arc to test and no table
\*   line 257  x was read from assignment[i], so `x in assignment[i]` holds
\*   line 258  a str has no remove(): AttributeError
ReviseValue(cons, a, i, j, x) ==
    LET ci == Get(a, i)
        cj == Get(a, j)
    IN  IF ~Iterable(cj) THEN [a |-> a, set |-> FALSE, exc |-> "TypeError"]
        ELSE
        LET arcs == get_all_possible_pairs(<<x>>, PyItems(cj))
        IN  IF arcs # <<>> /\ ~HasTable(cons, i, j)
            THEN [a |-> a, set |-> FALSE, exc |-> "KeyError"]
            ELSE IF \E n \in 1..Len(arcs) : arcs[n] \in Table(cons, i, j)
            THEN [a |-> a, set |-> FALSE, exc |-> "none"]
            ELSE IF PyLen(ci) > 1
            THEN IF ci.kind = "list"
                 THEN [a |-> Put(a, i, ListRemove(ci, x)), set |-> TRUE,
                       exc |-> "none"]
                 ELSE [a |-> a, set |-> TRUE, exc |-> "AttributeError"]
            ELSE [a |-> a, set |-> TRUE, exc |-> "none"]

\* revise(assignment, i, j) (lines 251-260): the loop of line 252 reads
\* position p of the list as it is at that moment, so a removal makes the
\* iterator pass over the item that moves into the vacated position.
RECURSIVE ReviseFrom(_, _, _, _, _, _)
ReviseFrom(cons, a, i, j, p, revised) ==
    IF p > PyLen(Get(a, i))
    THEN [a |-> a, revised |-> revised, exc |-> "none"]
    ELSE LET Rest(r) ==
                 IF r.exc # "none"
                 THEN [a |-> r.a, revised |-> revised \/ r.set, exc |-> r.exc]
                 ELSE ReviseFrom(cons, r.a, i, j, p + 1, revised \/ r.set)
         IN  Once(Rest, ReviseValue(cons, a, i, j, PyItems(Get(a, i))[p]))

revise(cons, a, i, j) ==
    IF ~Iterable(Get(a, i))
    THEN [a |-> a, revised |-> FALSE, exc |-> "TypeError"]
    ELSE ReviseFrom(cons, a, i, j, 1, FALSE)

\* A test that takes a domain of one value for a failure as well
Falsy_single(c) == Len(c.v) <= 1

\* `not assignment[i]` (line 234): an empty list or str
Falsy(c) == c.v = <<>>

\* The arcs lines 236-238 append to the queue after revise(_, i, j)
Requeue(cons, i, j) ==
    SelectSeq(get_all_neighboring_arcs(cons, i), LAMBDA arc : arc[1] # j)

\* One pass of the while loop of inference (lines 232-238) on the
\* assignment a with the queue q # <<>>: what it leaves, and whether the
\* call goes on ("loop"), returns False ("false") or raises ("raise").
InferenceBody(cons, a, q) ==
    LET arc == q[Len(q)]
        rest == SubSeq(q, 1, Len(q) - 1)
        Body(r) ==
            IF r.exc # "none"
            THEN [a |-> r.a, queue |-> rest, i |-> arc[1], j |-> arc[2],
                  revised |-> r.revised, exc |-> r.exc, next |-> "raise"]
            ELSE IF ~r.revised
            THEN [a |-> r.a, queue |-> rest, i |-> arc[1], j |-> arc[2],
                  revised |-> FALSE, exc |-> "none", next |-> "loop"]
            ELSE IF Falsy(Get(r.a, arc[1]))
            THEN [a |-> r.a, queue |-> rest, i |-> arc[1], j |-> arc[2],
                  revised |-> TRUE, exc |-> "none", next |-> "false"]
            ELSE [a |-> r.a, queue |-> rest \o Requeue(cons, arc[1], arc[2]),
                  i |-> arc[1], j |-> arc[2],
                  revised |-> TRUE, exc |-> "none", next |-> "loop"]
    IN  Once(Body, revise(cons, a, arc[1], arc[2]))

(***************************************************************************)
(* The search driver (lines 139-219)                                       *)
(***************************************************************************)
\* float("inf") (line 217), as a key above every length
Inf == 1000000

\* The key of line 217-219
SelectKey(a, var) ==
    IF PyLen(Get(a, var)) < 2 THEN Inf ELSE PyLen(Get(a, var))

\* The first variable, in the dict's order, that has several values,
\* whatever their number
select_unassigned_variable_first(a) ==
    IF \E m \in 1..Len(a) : PyLen(a[m].v) > 1
    THEN a[CHOOSE m \in 1..Len(a) :
               /\ PyLen(a[m].v) > 1
               /\ \A l \in 1..(m - 1) : PyLen(a[l].v) <= 1].k
    ELSE a[1].k

\* select_unassigned_variable(assignment): min() returns the first key, in
\* the dict's order, whose key value is the smallest
select_unassigned_variable(a) ==
    LET n == CHOOSE m \in 1..Len(a) :
                 /\ \A l \in 1..Len(a) : SelectKey(a, a[m].k) <= SelectKey(a, a[l].k)
                 /\ \A l \in 1..(m - 1) : SelectKey(a, a[l].k) > SelectKey(a, a[m].k)
    IN  a[n].k

\* sum(len(domain) for domain in assignment.values()) (line 184)
RECURSIVE SumLen(_, _)
SumLen(a, n) == IF n > Len(a) THEN 0 ELSE PyLen(a[n].v) + SumLen(a, n + 1)

\* The test of line 184; len() of an int cell raises TypeError
AllHaveLen(a) == \A n \in 1..Len(a) : HasLen(a[n].v)
Complete(a) == SumLen(a, 1) = Len(a)


\* The value a call returns: None, or the assignment dict by reference
None == [kind |-> "None", ref |-> 0]
Assignment(ref) == [kind |-> "assignment", ref |-> ref]

\* References: 0 is self.domains, n > 0 is the n-th dict copy.deepcopy made
Deref(h, ref) == IF ref = 0 THEN domains ELSE h[ref]
HeapWrite(h, ref, a) == IF ref = 0 THEN h ELSE [h EXCEPT ![ref] = a]
DomainsWrite(ref, a) == IF ref = 0 THEN a ELSE domains

\* A copy that copies nothing: the new name is bound to the same dict
deepcopy_alias(h, ref) == [heap |-> h, ref |-> ref]

\* copy.deepcopy(d) (lines 147, 189) of the dict at ref: a new dict with
\* the same contents, sharing nothing with the old one
deepcopy(h, ref) == [heap |-> Append(h, Deref(h, ref)), ref |-> Len(h) + 1]

\* The depth of nested backtrack() calls at which CPython raises
\* RecursionError (sys.getrecursionlimit(), scaled down)
RecursionLimit == 8

\* A backtrack() call: its argument and its locals
Frame(ref) == [assignment |-> ref, var |-> "", idx |-> 0, new_assignment |-> 0]

NoInference ==
    [assignment |-> 0, queue |-> <<>>, i |-> "", j |-> "", revised |-> FALSE,
     ret |-> TRUE]

Top == stack[Len(stack)]
Pop == SubSeq(stack, 1, Len(stack) - 1)
SetTop(f) == [stack EXCEPT ![Len(stack)] = f]

\* An exception leaves backtracking_search: every call on the stack ends
Raise(e) ==
    /\ pc' = "raised"
    /\ exc' = e
    /\ stack' = <<>>
    /\ result' = None

\* backtrack(ref) is called (lines 157, 194)
Call(ref) ==
    IF Len(stack) >= RecursionLimit
    THEN Raise("RecursionError")
    ELSE /\ stack' = Append(stack, Frame(ref))
         /\ pc' = "backtrack"
         /\ result' = None
         /\ exc' = "none"

\* The innermost backtrack() call returns r (lines 185, 196, 200)
Return(r) ==
    /\ stack' = Pop
    /\ result' = r
    /\ pc' = IF Len(stack) = 1 THEN "returned" ELSE "after_call"
    /\ exc' = "none"

\* backtracking_search(), lines 147-151: the copy, and the call of
\* inference on all arcs
backtracking_search ==
    /\ pc \in {"setup", "returned", "raised"}
    /\ LET c == deepcopy(<<>>, 0)
       IN  /\ heap' = c.heap
           /\ inf' = [NoInference EXCEPT !.assignment = c.ref,
                                         !.queue = get_all_arcs(constraints)]
    /\ pc' = "inference"
    /\ stack' = <<>>
    /\ result' = None
    /\ exc' = "none"
    /\ UNCHANGED <<store, counters>>

\* inference(), lines 231-238: one pass of the while loop
InferenceLoop ==
    /\ pc = "inference"
    /\ inf.queue # <<>>
    /\ \E b \in {InferenceBody(constraints, Deref(heap, inf.assignment), inf.queue)} :
           /\ heap' = HeapWrite(heap, inf.assignment, b.a)
           /\ domains' = DomainsWrite(inf.assignment, b.a)
           /\ inf' = [inf EXCEPT !.queue = b.queue, !.i = b.i, !.j = b.j,
                                 !.revised = b.revised, !.ret = (b.next # "false")]
           /\ IF b.next = "raise" THEN Raise(b.exc)
              ELSE /\ pc' = IF b.next = "false" THEN "inferred" ELSE "inference"
                   /\ UNCHANGED <<stack, result, exc>>
    /\ UNCHANGED <<variables, constraints, counters>>

\* inference(), lines 231 and 239: the queue is empty, return True
InferenceExit ==
    /\ pc = "inference"
    /\ inf.queue = <<>>
    /\ inf' = [inf EXCEPT !.ret = TRUE]
    /\ pc' = "inferred"
    /\ UNCHANGED <<store, counters, heap, stack, result, exc>>

\* A search that leaves the counters as the last search left them
SearchBacktrack_noreset ==
    /\ pc = "inferred"
    /\ stack = <<>>
    /\ Call(inf.assignment)
    /\ UNCHANGED <<store, counters, heap, inf>>

\* backtracking_search(), lines 151-157: inference has returned (its value
\* is not looked at); the counters are set and backtrack is called
SearchBacktrack ==
    /\ pc = "inferred"
    /\ stack = <<>>
    /\ backtrack_counter' = 1
    /\ backtrack_failure_counter' = 0
    /\ Call(inf.assignment)
    /\ UNCHANGED <<store, heap, inf>>

\* backtrack(), lines 184-187: the test for a complete assignment, and the
\* choice of the variable to branch on
BacktrackEnter ==
    /\ pc = "backtrack"
    /\ LET a == Deref(heap, Top.assignment)
       IN  IF ~AllHaveLen(a) THEN Raise("TypeError") /\ UNCHANGED inf
           ELSE IF Complete(a)
           THEN Return(Assignment(Top.assignment)) /\ UNCHANGED inf
           ELSE /\ stack' = SetTop([Top EXCEPT !.var = select_unassigned_variable(a),
                                               !.idx = 1])
                /\ pc' = "loop"
                /\ UNCHANGED <<inf, result, exc>>
    /\ UNCHANGED <<store, counters, heap>>

\* backtrack(), lines 188-191: the next value of the for loop, the copy,
\* the binding of the variable, and the call of inference on all arcs
BacktrackTry ==
    /\ pc = "loop"
    /\ LET a == Deref(heap, Top.assignment)
           cell == Get(a, Top.var)
       IN  /\ Top.idx <= PyLen(cell)
           /\ LET c == deepcopy(heap, Top.assignment)
                  new == Put(Deref(c.heap, c.ref), Top.var, PyItems(cell)[Top.idx])
              IN  /\ heap' = HeapWrite(c.heap, c.ref, new)
                  /\ domains' = DomainsWrite(c.ref, new)
                  /\ stack' = SetTop([Top EXCEPT !.new_assignment = c.ref])
                  /\ inf' = [NoInference EXCEPT !.assignment = c.ref,
                                                !.queue = get_all_arcs(constraints)]
    /\ pc' = "inference"
    /\ UNCHANGED <<variables, constraints, counters, result, exc>>

\* backtrack(), lines 191-194: inference has returned; on True the counter
\* goes up and backtrack is called on the branch, on False the loop goes on
BranchBacktrack ==
    /\ pc = "inferred"
    /\ stack # <<>>
    /\ IF inf.ret
       THEN /\ backtrack_counter' = backtrack_counter + 1
            /\ Call(Top.new_assignment)
       ELSE /\ stack' = SetTop([Top EXCEPT !.idx = Top.idx + 1])
            /\ pc' = "loop"
            /\ UNCHANGED <<backtrack_counter, result, exc>>
    /\ UNCHANGED <<store, backtrack_failure_counter, heap, inf>>

\* A loop that goes on to the next value whatever the recursive call
\* returned
ReturnResult_continue ==
    /\ pc = "after_call"
    /\ result.kind = "assignment"
    /\ stack' = SetTop([Top EXCEPT !.idx = Top.idx + 1])
    /\ pc' = "loop"
    /\ UNCHANGED <<store, counters, heap, inf, result, exc>>

\* backtrack(), lines 194-196: the recursive call returned a dict, which is
\* returned at once
ReturnResult ==
    /\ pc = "after_call"
    /\ result.kind = "assignment"
    /\ Return(result)
    /\ UNCHANGED <<store, counters, heap, inf>>

\* backtrack(), lines 194-195 and 188: the recursive call returned None,
\* the for loop goes on
NextValue ==
    /\ pc = "after_call"
    /\ result.kind = "None"
    /\ stack' = SetTop([Top EXCEPT !.idx = Top.idx + 1])
    /\ pc' = "loop"
    /\ UNCHANGED <<store, counters, heap, inf, result, exc>>

\* backtrack(), lines 188 and 199-200: the for loop is exhausted
BacktrackFail ==
    /\ pc = "loop"
    /\ Top.idx > PyLen(Get(Deref(heap, Top.assignment), Top.var))
    /\ backtrack_failure_counter' = backtrack_failure_counter + 1
    /\ Return(None)
    /\ UNCHANGED <<store, backtrack_counter, heap, inf>>


(***************************************************************************)
(* Setting up a store (lines 30-42, 90-124)                                *)
(***************************************************************************)
CSP == [variables |-> variables, domains |-> domains, constraints |-> constraints]

SetStore(st) ==
    /\ variables' = st.variables
    /\ domains' = st.domains
    /\ constraints' = st.constraints

\* add_variable(name, domain)
add_variable(name, domain) ==
    /\ pc = "setup"
    /\ SetStore(AddVariable(CSP, name, domain))
    /\ exc' = "none"
    /\ UNCHANGED <<counters, search>>

\* A call that makes the table for (i, j) before it looks up the domains,
\* so that a failed call leaves an empty table behind
add_constraint_one_way_early(i, j, p) ==
    /\ pc = "setup"
    /\ exc' = AddConstraintRaises(CSP, i, j)
    /\ IF AddConstraintRaises(CSP, i, j) = "none"
       THEN SetStore(AddConstraintOneWay(CSP, i, j, p))
       ELSE /\ variables' = variables
            /\ domains' = domains
            /\ constraints' =
                  Put(constraints, i,
                      IF Has(constraints, i) THEN Put(Get(constraints, i), j, {})
                      ELSE <<>>)
    /\ UNCHANGED <<counters, search>>

\* add_constraint_one_way(i, j, p): a KeyError leaves the store as it was
add_constraint_one_way(i, j, p) ==
    /\ pc = "setup"
    /\ exc' = AddConstraintRaises(CSP, i, j)
    /\ IF AddConstraintRaises(CSP, i, j) = "none"
       THEN SetStore(AddConstraintOneWay(CSP, i, j, p))
       ELSE UNCHANGED store
    /\ UNCHANGED <<counters, search>>

(***************************************************************************)
(* The inputs                                                              *)
(***************************************************************************)
Names == <<"A", "B", "C">>
Preds == {"neq", "eq"}

S1 == Str(<<"1">>)
S2 == Str(<<"2">>)
S3 == Str(<<"3">>)
Sab == Str(<<"a", "b">>)
I1 == Int(<<"1">>)
I2 == Int(<<"2">>)

\* The domains a variable is registered with
DomainChoices ==
    {<<>>, <<S1>>, <<S3>>, <<S1, S2>>, <<S1, S2, S3>>, <<I1, I2>>, <<Sab, S1>>}

\* The arcs constrained, in the order of the add_constraint_one_way calls:
\* none, one pair one way, one pair both ways, a chain, a triangle
ArcChoices(n) ==
    {<<>>, <<<<"A", "B">>>>, <<<<"A", "B">>, <<"B", "A">>>>}
    \cup IF n < 3 THEN {}
         ELSE {<<<<"B", "C">>, <<"C", "B">>>>,
               <<<<"A", "B">>, <<"B", "A">>, <<"B", "C">>, <<"C", "B">>>>,
               <<<<"A", "B">>, <<"B", "A">>, <<"A", "C">>, <<"C", "A">>,
                 <<"B", "C">>, <<"C", "B">>>>}

\* The store a builder such as create_map_coloring_csp (lines 267-278)
\* leaves: the variables registered in order, then one constraint per arc
RECURSIVE AddVariables(_, _, _)
AddVariables(st, doms, n) ==
    IF n > Len(doms) THEN st
    ELSE AddVariables(AddVariable(st, Names[n], doms[n]), doms, n + 1)

RECURSIVE AddArcs(_, _, _, _)
AddArcs(st, arcs, p, n) ==
    IF n > Len(arcs) THEN st
    ELSE AddArcs(AddConstraintOneWay(st, arcs[n][1], arcs[n][2], p), arcs, p, n + 1)

create_csp(doms, arcs, p) == AddArcs(AddVariables(NewCSP, doms, 1), arcs, p, 1)

(***************************************************************************)
(* The specifications                                                      *)
(***************************************************************************)
InitSearch ==
    /\ backtrack_counter = 0
    /\ backtrack_failure_counter = 0
    /\ heap = <<>>
    /\ stack = <<>>
    /\ inf = NoInference
    /\ pc = "setup"
    /\ result = None
    /\ exc = "none"

\* A store that has been built, before the first search
Init ==
    /\ \E n \in {2, 3} : \E doms \in [1..n -> DomainChoices] :
       \E arcs \in ArcChoices(n) : \E p \in Preds :
          LET st == create_csp(doms, arcs, p)
          IN  /\ variables = st.variables
              /\ domains = st.domains
              /\ constraints = st.constraints
    /\ InitSearch

Next ==
    \/ backtracking_search
    \/ InferenceLoop
    \/ InferenceExit
    \/ SearchBacktrack
    \/ BacktrackEnter
    \/ BacktrackTry
    \/ BranchBacktrack
    \/ ReturnResult
    \/ NextValue
    \/ BacktrackFail

Spec == Init /\ [][Next]_vars

\* The program is sequential: a call that can take a step takes it
FairSpec == Spec /\ WF_vars(Next)

\* CSP(): the store under construction
InitSetup ==
    /\ variables = NewCSP.variables
    /\ domains = NewCSP.domains
    /\ constraints = NewCSP.constraints
    /\ InitSearch

SetupDomains == {<<S1>>, <<S1, S2>>}
MaxTables == 3

NumTables == Len(get_all_arcs(constraints))

NextSetup ==
    \/ \E name \in Range(Names) \ Range(variables) : \E domain \in SetupDomains :
          add_variable(name, domain)
    \/ \E i \in Range(Names) : \E j \in Range(Names) \ {i} : \E p \in Preds :
          /\ NumTables < MaxTables \/ HasTable(constraints, i, j)
          /\ add_constraint_one_way(i, j, p)

SpecSetup == InitSetup /\ [][NextSetup]_vars

\* The same, with the variables registered in the order of Names, as the
\* builders register theirs (lines 267-270, 283-287); a constraint may
\* still come before the variables it names are registered
NextBuild ==
    \/ \E domain \in SetupDomains :
          /\ Len(variables) < Len(Names)
          /\ add_variable(Names[Len(variables) + 1], domain)
    \/ \E i \in Range(Names) : \E j \in Range(Names) \ {i} : \E p \in Preds :
          /\ NumTables < MaxTables \/ HasTable(constraints, i, j)
          /\ add_constraint_one_way(i, j, p)

SpecBuild == InitSetup /\ [][NextBuild]_vars


(***************************************************************************)
(* Notions the properties are stated in                                    *)
(***************************************************************************)
\* The values a cell of an assignment binds its variable to: the items of
\* a list, or the bare value line 190 has put in the list's place
ValuesOf(c) == IF c.kind = "list" THEN c.v ELSE <<c>>

Registered == Range(Keys(domains))
StoredDomain(var) == Get(domains, var).v
Arcs == Range(get_all_arcs(constraints))

NonEmptyDomains == \A var \in Registered : StoredDomain(var) # <<>>
TwoWay == \A arc \in Arcs : <<arc[2], arc[1]>> \in Arcs

\* A complete assignment, one value of its stored domain per variable,
\* that is in every table
Solvable ==
    \E f \in [Registered -> UNION {Range(StoredDomain(var)) : var \in Registered}] :
        /\ \A var \in Registered : f[var] \in Range(StoredDomain(var))
        /\ \A arc \in Arcs : <<f[arc[1]], f[arc[2]]>> \in Table(constraints, arc[1], arc[2])

Returned == pc = "returned" /\ result.kind = "assignment"
Solution == Deref(heap, result.ref)

\* s is t with some of its items left out
RECURSIVE IsSubSeq(_, _)
IsSubSeq(s, t) ==
    IF s = <<>> THEN TRUE
    ELSE IF t = <<>> THEN FALSE
    ELSE IF Head(s) = Head(t) THEN IsSubSeq(Tail(s), Tail(t))
    ELSE IsSubSeq(s, Tail(t))

\* The revise call the next pass of the inference loop makes
NextArc == inf.queue[Len(inf.queue)]
Revising == pc = "inference" /\ inf.queue # <<>>
Current == Deref(heap, inf.assignment)
NextRevise == revise(constraints, Current, NextArc[1], NextArc[2])

(***************************************************************************)
(* C1-C10                                                                  *)
(***************************************************************************)
\* C1: for a store with non-empty domains and tables in both directions,
\* an assignment backtracking_search returns is in every table: for every
\* arc (i, j), (value of i, value of j) is in constraints[i][j].
C1_SolutionInEveryTable ==
    (Returned /\ NonEmptyDomains /\ TwoWay) =>
        \A arc \in Arcs :
            \A x \in Range(ValuesOf(Get(Solution, arc[1]))) :
            \A y \in Range(ValuesOf(Get(Solution, arc[2]))) :
                <<x, y>> \in Table(constraints, arc[1], arc[2])

\* C2: for a store with no consistent complete assignment (such as two
\* variables of domain ['1'] that must differ), backtracking_search returns
\* None, never an assignment. Stated for the stores whose domains are all
\* non-empty and whose constraints all go both ways.
C2_UnsolvableReturnsNone ==
    (pc = "returned" /\ NonEmptyDomains /\ TwoWay /\ ~Solvable) => result = None

\* C3: on a store with non-empty domains every inference call ends: from
\* the while loop the program always gets out, by a return or by a raise.
C3_InferenceTerminates ==
    [](pc = "inference" /\ NonEmptyDomains => <>(pc # "inference"))

\* C4: revise(assignment, i, j) returns True exactly when it removed a value
\* from i's domain: True means the domain is smaller after the call, False
\* means the assignment is as it was.
C4_ReviseTrueIffRemoved ==
    (Revising /\ NextRevise.exc = "none") =>
        /\ NextRevise.revised <=>
              PyLen(Get(NextRevise.a, NextArc[1])) < PyLen(Get(Current, NextArc[1]))
        /\ ~NextRevise.revised => NextRevise.a = Current

\* C5: in an assignment backtracking_search returns, every variable has
\* exactly one value, whatever the sizes of the stored domains.
C5_ReturnedIsComplete ==
    Returned => \A var \in Registered : Len(ValuesOf(Get(Solution, var))) = 1

\* C6: when inference(assignment, get_all_arcs()) has returned True, a
\* fixed point is reached: revise on any arc of the store removes nothing.
\* Stated for the stores whose constraints all go both ways.
C6_InferenceFixedPoint ==
    (pc = "inferred" /\ inf.ret /\ TwoWay) =>
        \A arc \in Arcs :
            LET r == revise(constraints, Current, arc[1], arc[2])
            IN  r.exc = "none" => r.a = Current

\* C7: a search never changes the variable list, the domain map or the
\* tables, and no step changes the assignment an active backtrack call was
\* passed: a branch works on its own copy, so neither the parent nor a
\* sibling made from the parent sees what inference removes in it.
C7_SearchMutatesOnlyCopies ==
    [][/\ variables' = variables
       /\ domains' = domains
       /\ constraints' = constraints
       /\ \A d \in 1..Len(stack) :
             (d <= Len(stack') /\ stack'[d].assignment = stack[d].assignment) =>
                 /\ stack[d].assignment \in 1..Len(heap')
                 /\ heap'[stack[d].assignment] = heap[stack[d].assignment]]_vars

\* C7 witness: in the branch of a second candidate value, inference has
\* removed a value of another variable from the branch's copy
C7_Witness ==
    /\ pc = "inferred"
    /\ stack # <<>>
    /\ Top.idx >= 2
    /\ \E var \in Registered \ {Top.var} :
          PyLen(Get(Deref(heap, Top.new_assignment), var))
              < PyLen(Get(Deref(heap, Top.assignment), var))

\* C8: in an assignment backtracking_search returns, every value a variable
\* has is a value of its stored domain, and a variable stored with one
\* value has that value.
C8_ValuesFromStoredDomains ==
    Returned =>
        \A var \in Registered :
            /\ \A x \in Range(ValuesOf(Get(Solution, var))) :
                  x \in Range(StoredDomain(var))
            /\ Len(StoredDomain(var)) = 1 =>
                  ValuesOf(Get(Solution, var)) = StoredDomain(var)

C10_DomainsOnlyShrink ==
    [][pc = "inference" =>
          /\ \A var \in Registered : IsSubSeq(Get(domains', var).v, Get(domains, var).v)
          /\ Len(heap') = Len(heap)
          /\ \A ref \in 1..Len(heap) : \A var \in Registered :
                /\ Get(heap'[ref], var).kind = Get(heap[ref], var).kind
                /\ IsSubSeq(Get(heap'[ref], var).v, Get(heap[ref], var).v)]_vars

\* C10 witness: inference has just removed a value from a domain of three
C10_Witness ==
    /\ pc = "inference"
    /\ inf.revised
    /\ Len(StoredDomain(inf.i)) = 3
    /\ PyLen(Get(Current, inf.i)) = 2

(***************************************************************************)
(* C11-C19                                                                 *)
(***************************************************************************)
\* The assignment a is arc-consistent: on every arc (i, j) of the store
\* every value of i's domain has a value of j's domain with which it is in
\* the table for (i, j). The values of a domain are the ones the code reads
\* from it (line 252, line 253).
ArcConsistent(a) ==
    /\ \A n \in 1..Len(a) : Iterable(a[n].v)
    /\ \A arc \in Arcs :
          \A x \in Range(PyItems(Get(a, arc[1]))) :
          \E y \in Range(PyItems(Get(a, arc[2]))) :
              <<x, y>> \in Table(constraints, arc[1], arc[2])

\* C11: on an arc-consistent assignment every pass of inference leaves all
\* the domains as they were, raises nothing and takes one arc off the queue
\* without adding any, and the call ends by returning True.
C11_ConsistentUnchanged ==
    [][(pc = "inference" /\ ArcConsistent(Current)) =>
          /\ heap' = heap
          /\ domains' = domains
          /\ exc' = "none"
          /\ \/ pc' = "inference" /\ Len(inf'.queue) = Len(inf.queue) - 1
             \/ pc' = "inferred" /\ inf'.ret /\ inf.queue = <<>>]_vars

\* C11 witness: the first inference call of a search, on arc-consistent
\* stored domains one of which has several values, has gone through all
\* the arcs and returned True
C11_Witness ==
    /\ pc = "inferred"
    /\ stack = <<>>
    /\ inf.ret
    /\ Arcs # {}
    /\ Current = domains
    /\ ArcConsistent(Current)
    /\ \E var \in Registered : Len(StoredDomain(var)) > 1

\* What C12 says add_constraint_one_way(i, j, p) does to the store
FiltersOneTable(i, j, p) ==
    /\ exc' = "none"
    /\ variables' = variables
    /\ domains' = domains
    /\ HasTable(constraints', i, j)
    /\ Table(constraints', i, j) =
          IF HasTable(constraints, i, j)
          THEN {pair \in Table(constraints, i, j) : Holds(p, pair[1], pair[2])}
          ELSE {pair \in Range(StoredDomain(i)) \X Range(StoredDomain(j)) :
                    Holds(p, pair[1], pair[2])}
    /\ Keys(constraints') = Keys(constraints)
    /\ \A k \in Registered \ {i} : Get(constraints', k) = Get(constraints, k)
    /\ \A l \in Range(Keys(Get(constraints, i))) : HasTable(constraints', i, l)
    /\ \A l \in Range(Keys(Get(constraints', i))) \ {j} :
          /\ HasTable(constraints, i, l)
          /\ Table(constraints', i, l) = Table(constraints, i, l)

\* C12: add_constraint_one_way(i, j, p) on registered i and j makes the
\* table for (i, j) the pairs of domain(i) x domain(j) that satisfy p when
\* there was none, and the pairs of the old table that satisfy p when there
\* was one; every other table, the reverse one included, the domains and
\* the variable list stay as they were.
C12_ConstraintFiltersOneTable ==
    [][\A i \in Registered : \A j \in Registered : \A p \in Preds :
          add_constraint_one_way(i, j, p) => FiltersOneTable(i, j, p)]_vars

\* C12 witness: the table for (A, B) has been filtered by both predicates
\* and is empty, and no table for (B, A) was made
C12_Witness ==
    /\ HasTable(constraints, "A", "B")
    /\ Table(constraints, "A", "B") = {}
    /\ Len(StoredDomain("A")) = 2
    /\ Len(StoredDomain("B")) = 2
    /\ ~HasTable(constraints, "B", "A")

\* backtrack has just made a branch and handed it to inference (line 191):
\* no pass of the inference loop has run on it yet
BranchHandedOver == pc = "inference" /\ stack # <<>> /\ inf.i = ""
Branch == Deref(heap, Top.new_assignment)
Parent == Deref(heap, Top.assignment)
Candidate == PyItems(Get(Parent, Top.var))[Top.idx]

\* C13: in the branch backtrack hands to inference, the selected variable
\* is decided, whatever kind of value the candidate is: its domain is a
\* sequence of one element, the candidate; the other domains are the
\* parent's.
C13_BranchDecided ==
    BranchHandedOver =>
        /\ Iterable(Get(Branch, Top.var))
        /\ PyLen(Get(Branch, Top.var)) = 1
        /\ PyItems(Get(Branch, Top.var))[1] = Candidate
        /\ \A var \in Registered \ {Top.var} : Get(Branch, var) = Get(Parent, var)

\* The place of the variable var in the assignment a, and the size of its
\* domain as the code takes it (line 218)
Place(a, var) == CHOOSE n \in 1..Len(a) : a[n].k = var
Size(a, var) == PyLen(Get(a, var))

\* C14: the variable select_unassigned_variable has returned to an active
\* backtrack call, when the call's assignment has an undecided variable, is
\* undecided, no undecided variable has fewer values, and none with as few
\* values comes before it in the insertion order.
C14_SelectsFirstSmallestUndecided ==
    \A d \in 1..Len(stack) :
        LET a == Deref(heap, stack[d].assignment)
            var == stack[d].var
        IN  (var # "" /\ \E other \in Registered : Size(a, other) > 1) =>
                /\ Size(a, var) > 1
                /\ \A other \in Registered :
                      Size(a, other) > 1 =>
                          /\ Size(a, var) <= Size(a, other)
                          /\ Size(a, other) = Size(a, var) =>
                                Place(a, var) <= Place(a, other)

\* C14 witness: B was selected, with two values, before C, with two values
\* as well, and not A, the first variable, with three
C14_Witness ==
    /\ pc = "loop"
    /\ Top.var = "B"
    /\ Has(Parent, "C")
    /\ Size(Parent, "A") = 3
    /\ Size(Parent, "B") = 2
    /\ Size(Parent, "C") = 2

SolutionFound == pc = "after_call" /\ result.kind = "assignment"

\* C16: a backtrack call tries the values of the selected variable in
\* domain order: the first branch is for the first value, and the call goes
\* from a value to the next one only. Once a recursive call has returned an
\* assignment, every step is a return of that same assignment by the next
\* caller: no copy is made, no inference or backtrack call starts, and
\* backtracking_search returns it.
C16_FirstSolutionWins ==
    [][/\ SolutionFound =>
             /\ pc' \in {"after_call", "returned"}
             /\ result' = result
             /\ stack' = Pop
             /\ heap' = heap
             /\ inf' = inf
             /\ backtrack_counter' = backtrack_counter
       /\ (pc = "backtrack" /\ pc' = "loop") => Top'.idx = 1
       /\ (pc = "loop" /\ pc' = "inference") =>
             /\ Top'.idx = Top.idx
             /\ Get(heap'[Top'.new_assignment], Top.var) = Candidate
       /\ \A d \in 1..Len(stack) :
             d <= Len(stack') =>
                 /\ stack'[d].idx \in {stack[d].idx, stack[d].idx + 1}
                 /\ stack[d].var # "" => stack'[d].var = stack[d].var]_vars

\* C16 witness: an assignment found two calls down has been returned by the
\* call in between to a call that has values left to try
C16_Witness ==
    /\ SolutionFound
    /\ result.ref # Top.new_assignment
    /\ Top.idx < Size(Parent, Top.var)

\* A step in which a backtrack invocation starts, and one in which the
\* innermost invocation returns failure
Invoked == Len(stack') = Len(stack) + 1
Failed ==
    /\ stack # <<>>
    /\ stack' = Pop
    /\ pc' \in {"after_call", "returned"}
    /\ result' = None

\* C17: backtrack_counter counts the backtrack invocations of the search
\* and backtrack_failure_counter the ones that returned failure: the root
\* invocation sets them to 1 and 0 whatever an earlier search left, every
\* further invocation adds one to the first, every return of failure adds
\* one to the second, and no other step of the search changes them. Each
\* invocation having an assignment of its own, backtracking_search returns
\* with backtrack_counter equal to the number of assignments made.
C17_CountersCountCalls ==
    /\ [](pc = "returned" => backtrack_counter = Len(heap))
    /\ [][pc' # "raised" =>
             /\ IF Invoked
                THEN IF stack = <<>>
                     THEN backtrack_counter' = 1 /\ backtrack_failure_counter' = 0
                     ELSE /\ backtrack_counter' = backtrack_counter + 1
                          /\ backtrack_failure_counter' = backtrack_failure_counter
                ELSE /\ backtrack_counter' = backtrack_counter
                     /\ backtrack_failure_counter' =
                           backtrack_failure_counter + (IF Failed THEN 1 ELSE 0)]_vars

\* C17 witness: a search has returned an assignment after several
\* invocations, one of which returned failure
C17_Witness ==
    /\ pc = "returned"
    /\ backtrack_counter >= 3
    /\ backtrack_failure_counter >= 1
    /\ result.kind = "assignment"

\* C18: inference never returns False: a call that returns, returns True.
\* So backtrack calls itself on every branch whose inference call returns,
\* and a backtrack invocation returns failure only on an assignment that
\* has an empty domain.
C18_InferenceNeverFails ==
    /\ [](pc = "inferred" => inf.ret)
    /\ [][/\ (pc = "inferred" /\ stack # <<>>) =>
                \/ pc' = "backtrack" /\ Top'.assignment = Top.new_assignment
                \/ pc' = "raised" /\ exc' = "RecursionError"
          /\ Failed =>
                \E var \in Registered : Falsy(Get(Deref(heap, Top.assignment), var))]_vars

\* C18 witness: inference has returned True on a branch in which two
\* decided variables have values that are not together in their table
C18_Witness ==
    /\ pc = "inferred"
    /\ stack # <<>>
    /\ inf.ret
    /\ \E arc \in Arcs :
          /\ Iterable(Get(Current, arc[1]))
          /\ Iterable(Get(Current, arc[2]))
          /\ Size(Current, arc[1]) = 1
          /\ Size(Current, arc[2]) = 1
          /\ <<PyItems(Get(Current, arc[1]))[1], PyItems(Get(Current, arc[2]))[1]>>
                \notin Table(constraints, arc[1], arc[2])

\* C19: add_constraint_one_way(i, j, p) with i or j not registered raises
\* an error (KeyError) and leaves the variable list, the domains and the
\* tables as they were; there is no table for (i, j) after it.
C19_UnregisteredRaises ==
    [][\A i \in Range(Names) : \A j \in Range(Names) : \A p \in Preds :
          (add_constraint_one_way(i, j, p)
              /\ (i \notin Registered \/ j \notin Registered)) =>
                  /\ exc' = "KeyError"
                  /\ variables' = variables
                  /\ domains' = domains
                  /\ constraints' = constraints
                  /\ ~HasTable(constraints', i, j)]_vars

\* C19 witness: a call has raised on a store that has two variables and a
\* table, C being unregistered
C19_Witness ==
    /\ exc = "KeyError"
    /\ variables = <<"A", "B">>
    /\ HasTable(constraints, "A", "B")
    /\ Table(constraints, "A", "B") # {}

====
